---- MODULE Spec2Model ----
(***************************************************************************)
(* A model of cwisstable/base.h.                                           *)
(*                                                                         *)
(* The header is a sequence of preprocessor directives that turn the      *)
(* macros the toolchain predefines (and the -D definitions of the build)   *)
(* into the CWISS_* capability macros, plus four run-time primitives:      *)
(* CWISS_ATOMIC_INC, CWISS_CHECK, CWISS_DCHECK and the hint macros.        *)
(*                                                                         *)
(*  SpecPP      the preprocessor walking the header, one action per        *)
(*              directive group, from every macro environment.             *)
(*  SpecAtomic  threads executing CWISS_ATOMIC_INC on one counter.         *)
(*  SpecCheck   a caller executing CWISS_CHECK / CWISS_DCHECK statements.  *)
(*  SpecHint    a caller evaluating CWISS_LIKELY / CWISS_UNLIKELY /        *)
(*              CWISS_PREFETCH under either expansion.                     *)
(***************************************************************************)
EXTENDS Integers, Sequences, FiniteSets, TLC

VARIABLES
    predefined,   \* the macro table before line 1: toolchain macros and -D flags
    macros,       \* the object-like macros with an integer value, as they stand
    expansion,    \* the macros whose replacement is program text
    included,     \* the system headers the conditional #include lines pulled in
    error,        \* the text of the #error directive met, "" when none
    ppc,          \* the directive group the preprocessor is about to read
    history,      \* the modification order of the atomic object val_, oldest first
    view,         \* per thread, the latest position of history it has observed
    returned,     \* the results of the completed CWISS_ATOMIC_INC calls, in order
    cpc,          \* where the caller of a check stands
    call,         \* the check statement being executed: macro, operands, call site
    events,       \* what that statement has done so far, in order
    stderrBuf,    \* text written to stderr and not yet flushed
    stderrOut,    \* text that has left the process through stderr
    condEvals,    \* times a condition operand has been evaluated
    argEvals,     \* times a message operand list has been evaluated
    calls,        \* the macros of the check statements begun, in order
    hintLog,      \* the hint macros evaluated: macro, operand, result
    prefetched,   \* the prefetch instructions issued
    addrEvals     \* times the address operand of CWISS_PREFETCH has been evaluated

ppVars == <<predefined, macros, expansion, included, error, ppc>>

atomicVars == <<history, view, returned>>

checkVars ==
    <<cpc, call, events, stderrBuf, stderrOut, condEvals, argEvals, calls>>

hintVars == <<hintLog, prefetched, addrEvals>>

vars == <<ppVars, atomicVars, checkVars, hintVars>>

---------------------------------------------------------------------------
(* Bounds *)

\* -D overrides of a capability flag take the values 0..MaxOverride.
MaxOverride == 1

\* Threads sharing the counter.
NumThreads == 2

\* CWISS_ATOMIC_INC calls made in one run, over all threads.
MaxIncs == 4

\* Width in bits of the unsigned Type_ given to CWISS_ATOMIC_T.
CounterBits == 2

\* Check statements one run executes.
MaxCalls == 2

\* Hint macros one run evaluates.
MaxHintCalls == 2

\* Operands of CWISS_LIKELY and CWISS_UNLIKELY range over -1..MaxCond.
MaxCond == 2

---------------------------------------------------------------------------
(* The preprocessor's view of a macro *)

\* A macro that is not defined. In a #if expression such an identifier is 0.
Undef == -1

Defined(v) == v # Undef

\* The value an identifier has inside a #if expression.
IfValue(v) == IF Defined(v) THEN v ELSE 0

\* C truth of an integer.
Truthy(v) == v # 0

BoolInt(b) == IF b THEN 1 ELSE 0

Flag == {Undef, 1}

NotDefinedText == "<not defined>"

\* Every macro environment the header can be read in.
Toolchains ==
    { t \in [ __clang__ : Flag, __GNUC__ : Flag, _MSC_VER : Flag,
              __SSE2__ : Flag, __SSSE3__ : Flag,
              _M_X64 : Flag, _M_IX86 : Flag, _M_IX86_FP : {Undef} \cup 0..2,
              __has_builtin : Flag, __has_attribute : Flag,
              CWISS_HAVE_SSE2 : {Undef} \cup 0..MaxOverride,
              CWISS_HAVE_SSSE3 : {Undef} \cup 0..MaxOverride,
              CWISS_IS_CLANG : {Undef}, CWISS_IS_GCCISH : {Undef},
              CWISS_IS_MSVCISH : {Undef}, CWISS_HAVE_PREFETCH : {Undef} ] :
        \* MSVC targets x64 or x86, never both, and sets _M_IX86_FP on x86 only
        /\ ~(Defined(t._M_X64) /\ Defined(t._M_IX86))
        /\ (Defined(t._M_IX86_FP) => Defined(t._M_IX86)) }

NoExpansion ==
    [ CWISS_IS_GCC |-> NotDefinedText, CWISS_IS_MSVC |-> NotDefinedText,
      CWISS_BEGIN_ |-> NotDefinedText, CWISS_END_ |-> NotDefinedText,
      CWISS_HAVE_CLANG_BUILTIN |-> NotDefinedText,
      CWISS_HAVE_GCC_ATTRIBUTE |-> NotDefinedText,
      CWISS_THREAD_LOCAL |-> NotDefinedText,
      CWISS_LIKELY |-> NotDefinedText, CWISS_UNLIKELY |-> NotDefinedText,
      CWISS_ALWAYS_INLINE |-> NotDefinedText, CWISS_NOINLINE |-> NotDefinedText,
      CWISS_PREFETCH |-> NotDefinedText ]

---------------------------------------------------------------------------
(* Compiler detection, lines 52-76 *)

IsClang(m) == BoolInt(Defined(m.__clang__))

IsGccish(m) == BoolInt(Defined(m.__GNUC__))

IsMsvcish(m) == BoolInt(Defined(m._MSC_VER))

\* CWISS_IS_GCC without the exclusion of Clang.
GccIncludingClang(m) == BoolInt(Truthy(IfValue(m.CWISS_IS_GCCISH)))

\* #define CWISS_IS_GCC (CWISS_IS_GCCISH && !CWISS_IS_CLANG), expanded on use
CWISS_IS_GCC(m) ==
    BoolInt(Truthy(IfValue(m.CWISS_IS_GCCISH)) /\ ~Truthy(IfValue(m.CWISS_IS_CLANG)))

\* #define CWISS_IS_MSVC (CWISS_IS_MSVCISH && !CWISS_IS_CLANG), expanded on use
CWISS_IS_MSVC(m) ==
    BoolInt(Truthy(IfValue(m.CWISS_IS_MSVCISH)) /\ ~Truthy(IfValue(m.CWISS_IS_CLANG)))

---------------------------------------------------------------------------
(* Instruction-set detection, lines 91-126 *)

\* The #if of lines 96-98.
DetectSSE2(m) ==
    \/ Defined(m.__SSE2__)
    \/ /\ Truthy(IfValue(m.CWISS_IS_MSVCISH))
       /\ \/ Defined(m._M_X64)
          \/ Defined(m._M_IX86) /\ IfValue(m._M_IX86_FP) >= 2

\* CWISS_HAVE_SSE2 without the #ifndef guard: detection overwrites an override.
DetectOnlySSE2(m) == BoolInt(DetectSSE2(m))

\* Lines 95-103: the value CWISS_HAVE_SSE2 has after the #ifndef block.
HaveSSE2(m) ==
    IF Defined(m.CWISS_HAVE_SSE2) THEN m.CWISS_HAVE_SSE2
    ELSE BoolInt(DetectSSE2(m))

\* Lines 109-115: the value CWISS_HAVE_SSSE3 has after the #ifndef block.
HaveSSSE3(m) ==
    IF Defined(m.CWISS_HAVE_SSSE3) THEN m.CWISS_HAVE_SSSE3
    ELSE BoolInt(Defined(m.__SSSE3__))

BadConfiguration == "Bad configuration: SSSE3 implies SSE2!"

\* The configuration test made on the toolchain's macro, not the resolved flag.
PredefinedSSSE3WithoutSSE2(m) ==
    Defined(m.__SSSE3__) /\ ~Truthy(IfValue(m.CWISS_HAVE_SSE2))

\* Lines 121-124: whether the #error directive is reached.
SSSE3WithoutSSE2(m) ==
    Truthy(IfValue(m.CWISS_HAVE_SSSE3)) /\ ~Truthy(IfValue(m.CWISS_HAVE_SSE2))

---------------------------------------------------------------------------
(* Feature queries and hints, lines 128-211 *)

\* Lines 132-136.
HaveClangBuiltinText(m) ==
    IF Defined(m.__has_builtin) THEN "__has_builtin(x)" ELSE "0"

\* Lines 143-147.
HaveGccAttributeText(m) ==
    IF Defined(m.__has_attribute) THEN "__has_attribute(x)" ELSE "0"

\* The values CWISS_HAVE_CLANG_BUILTIN(x) can take in a #if: the toolchain's
\* answer when the macro forwards to __has_builtin, 0 otherwise.
ClangBuiltinAnswers(e) ==
    IF e.CWISS_HAVE_CLANG_BUILTIN = "__has_builtin(x)" THEN {0, 1} ELSE {0}

GccAttributeAnswers(e) ==
    IF e.CWISS_HAVE_GCC_ATTRIBUTE = "__has_attribute(x)" THEN {0, 1} ELSE {0}

\* The #if of lines 178 and 204: CWISS_HAVE_CLANG_BUILTIN(...) || CWISS_IS_GCC.
UseBuiltin(answer, m) == Truthy(answer) \/ Truthy(CWISS_IS_GCC(m))

LikelyText(answer, m) ==
    IF UseBuiltin(answer, m) THEN "(__builtin_expect(false || (cond_), true))"
    ELSE "(cond_)"

UnlikelyText(answer, m) ==
    IF UseBuiltin(answer, m) THEN "(__builtin_expect(false || (cond_), false))"
    ELSE "(cond_)"

AlwaysInlineText(answer) ==
    IF Truthy(answer) THEN "__attribute__((always_inline))" ELSE ""

NoinlineText(answer) ==
    IF Truthy(answer) THEN "__attribute__((noinline))" ELSE ""

\* CWISS_PREFETCH without its #else branch.
PrefetchTextNoFallback(answer, m) ==
    IF UseBuiltin(answer, m) THEN "__builtin_prefetch(addr_, 0, locality_);"
    ELSE NotDefinedText

PrefetchText(answer, m) ==
    IF UseBuiltin(answer, m) THEN "__builtin_prefetch(addr_, 0, locality_);"
    ELSE "((void)0)"

HavePrefetch(answer, m) == BoolInt(UseBuiltin(answer, m))

\* Lines 151-153: defined for the GCC family only.
ThreadLocalText(m) ==
    IF Truthy(IfValue(m.CWISS_IS_GCCISH)) THEN "__thread" ELSE NotDefinedText

---------------------------------------------------------------------------
(* The preprocessor reading the header *)

\* The parts of the state a specification does not exercise stay as they are.
AtomicIdle == history = <<0>> /\ view = <<>> /\ returned = <<>>

NoCall == [ macro |-> "none" ]

CheckIdle ==
    /\ cpc = "idle"
    /\ call = NoCall
    /\ events = <<>>
    /\ stderrBuf = <<>>
    /\ stderrOut = <<>>
    /\ condEvals = 0
    /\ argEvals = 0
    /\ calls = <<>>

HintIdle == hintLog = <<>> /\ prefetched = <<>> /\ addrEvals = 0

InitPP ==
    /\ predefined \in Toolchains
    /\ macros = predefined
    /\ expansion = NoExpansion
    /\ included = {}
    /\ error = ""
    /\ ppc = "clang"
    /\ AtomicIdle
    /\ CheckIdle
    /\ HintIdle

Step(from, to) ==
    /\ ppc = from
    /\ ppc' = to
    /\ UNCHANGED <<atomicVars, checkVars, hintVars>>

\* Lines 60-64.
DetectClang ==
    /\ Step("clang", "gccish")
    /\ macros' = [macros EXCEPT !.CWISS_IS_CLANG = IsClang(macros)]
    /\ UNCHANGED <<predefined, expansion, included, error>>

\* Lines 65-69.
DetectGccish ==
    /\ Step("gccish", "msvcish")
    /\ macros' = [macros EXCEPT !.CWISS_IS_GCCISH = IsGccish(macros)]
    /\ UNCHANGED <<predefined, expansion, included, error>>

\* Lines 70-74.
DetectMsvcish ==
    /\ Step("msvcish", "strict")
    /\ macros' = [macros EXCEPT !.CWISS_IS_MSVCISH = IsMsvcish(macros)]
    /\ UNCHANGED <<predefined, expansion, included, error>>

\* Lines 75-76.
DefineStrict ==
    /\ Step("strict", "warning")
    /\ expansion' = [expansion EXCEPT
           !.CWISS_IS_GCC = "(CWISS_IS_GCCISH && !CWISS_IS_CLANG)",
           !.CWISS_IS_MSVC = "(CWISS_IS_MSVCISH && !CWISS_IS_CLANG)"]
    /\ UNCHANGED <<predefined, macros, included, error>>

\* Lines 81-89.
DefineWarningControl ==
    /\ Step("warning", "sse2")
    /\ expansion' = [expansion EXCEPT
           !.CWISS_BEGIN_ =
               IF Truthy(IfValue(macros.CWISS_IS_GCCISH))
               THEN "_Pragma(push) _Pragma(ignored -Wunused-function)" ELSE "",
           !.CWISS_END_ =
               IF Truthy(IfValue(macros.CWISS_IS_GCCISH))
               THEN "_Pragma(pop)" ELSE ""]
    /\ UNCHANGED <<predefined, macros, included, error>>

\* Lines 95-103.
ResolveSSE2 ==
    /\ Step("sse2", "ssse3")
    /\ macros' = [macros EXCEPT !.CWISS_HAVE_SSE2 = HaveSSE2(macros)]
    /\ UNCHANGED <<predefined, expansion, included, error>>

\* Lines 109-115.
ResolveSSSE3 ==
    /\ Step("ssse3", "emmintrin")
    /\ macros' = [macros EXCEPT !.CWISS_HAVE_SSSE3 = HaveSSSE3(macros)]
    /\ UNCHANGED <<predefined, expansion, included, error>>

\* Lines 117-119.
IncludeEmmintrin ==
    /\ Step("emmintrin", "tmmintrin")
    /\ included' = IF Truthy(IfValue(macros.CWISS_HAVE_SSE2))
                   THEN included \cup {"emmintrin.h"} ELSE included
    /\ UNCHANGED <<predefined, macros, expansion, error>>

\* Lines 121-126: #error ends the translation.
CheckSSSE3 ==
    /\ ppc = "tmmintrin"
    /\ IF ~Truthy(IfValue(macros.CWISS_HAVE_SSSE3))
       THEN ppc' = "has_builtin" /\ UNCHANGED <<included, error>>
       ELSE IF SSSE3WithoutSSE2(macros)
       THEN ppc' = "failed" /\ error' = BadConfiguration /\ UNCHANGED included
       ELSE /\ ppc' = "has_builtin"
            /\ included' = included \cup {"tmmintrin.h"}
            /\ UNCHANGED error
    /\ UNCHANGED <<predefined, macros, expansion>>
    /\ UNCHANGED <<atomicVars, checkVars, hintVars>>

\* Lines 132-136.
DefineHaveClangBuiltin ==
    /\ Step("has_builtin", "has_attribute")
    /\ expansion' = [expansion EXCEPT
           !.CWISS_HAVE_CLANG_BUILTIN = HaveClangBuiltinText(macros)]
    /\ UNCHANGED <<predefined, macros, included, error>>

\* Lines 143-147.
DefineHaveGccAttribute ==
    /\ Step("has_attribute", "thread_local")
    /\ expansion' = [expansion EXCEPT
           !.CWISS_HAVE_GCC_ATTRIBUTE = HaveGccAttributeText(macros)]
    /\ UNCHANGED <<predefined, macros, included, error>>

\* Lines 151-153.
DefineThreadLocal ==
    /\ Step("thread_local", "likely")
    /\ expansion' = [expansion EXCEPT !.CWISS_THREAD_LOCAL = ThreadLocalText(macros)]
    /\ UNCHANGED <<predefined, macros, included, error>>

\* Lines 178-184.
DefineLikely ==
    /\ Step("likely", "always_inline")
    /\ \E answer \in ClangBuiltinAnswers(expansion) :
           expansion' = [expansion EXCEPT
               !.CWISS_LIKELY = LikelyText(answer, macros),
               !.CWISS_UNLIKELY = UnlikelyText(answer, macros)]
    /\ UNCHANGED <<predefined, macros, included, error>>

\* Lines 188-192.
DefineAlwaysInline ==
    /\ Step("always_inline", "noinline")
    /\ \E answer \in GccAttributeAnswers(expansion) :
           expansion' = [expansion EXCEPT
               !.CWISS_ALWAYS_INLINE = AlwaysInlineText(answer)]
    /\ UNCHANGED <<predefined, macros, included, error>>

\* Lines 196-200.
DefineNoinline ==
    /\ Step("noinline", "prefetch")
    /\ \E answer \in GccAttributeAnswers(expansion) :
           expansion' = [expansion EXCEPT !.CWISS_NOINLINE = NoinlineText(answer)]
    /\ UNCHANGED <<predefined, macros, included, error>>

\* Lines 204-211.
DefinePrefetch ==
    /\ Step("prefetch", "done")
    /\ \E answer \in ClangBuiltinAnswers(expansion) :
           /\ macros' = [macros EXCEPT
                  !.CWISS_HAVE_PREFETCH = HavePrefetch(answer, macros)]
           /\ expansion' = [expansion EXCEPT
                  !.CWISS_PREFETCH = PrefetchText(answer, macros)]
    /\ UNCHANGED <<predefined, included, error>>

NextPP ==
    \/ DetectClang
    \/ DetectGccish
    \/ DetectMsvcish
    \/ DefineStrict
    \/ DefineWarningControl
    \/ ResolveSSE2
    \/ ResolveSSSE3
    \/ IncludeEmmintrin
    \/ CheckSSSE3
    \/ DefineHaveClangBuiltin
    \/ DefineHaveGccAttribute
    \/ DefineThreadLocal
    \/ DefineLikely
    \/ DefineAlwaysInline
    \/ DefineNoinline
    \/ DefinePrefetch

SpecPP == InitPP /\ [][NextPP]_vars

---------------------------------------------------------------------------
(* The translation unit at run time *)

\* A toolchain that predefines nothing; the run-time specifications vary the
\* one macro that selects the expansion they execute.
BareToolchain ==
    [ __cplusplus |-> Undef, NDEBUG |-> Undef,
      __clang__ |-> Undef, __GNUC__ |-> Undef, _MSC_VER |-> Undef,
      __has_builtin |-> Undef, __has_attribute |-> Undef,
      CWISS_IS_CLANG |-> Undef, CWISS_IS_GCCISH |-> Undef,
      CWISS_IS_MSVCISH |-> Undef ]

\* Lines 60-74 in one step: the compiler-identity macros of toolchain t.
Identify(t) ==
    [t EXCEPT !.CWISS_IS_CLANG = IsClang(t),
              !.CWISS_IS_GCCISH = IsGccish(t),
              !.CWISS_IS_MSVCISH = IsMsvcish(t)]

\* The run-time specifications leave the preprocessor where it stopped.
PPRun(t, e) ==
    /\ predefined = t
    /\ macros = Identify(t)
    /\ expansion = e
    /\ included = {}
    /\ error = ""
    /\ ppc = "run"

---------------------------------------------------------------------------
(* CWISS_ATOMIC_T and CWISS_ATOMIC_INC, lines 35-50 *)

Threads == 1..NumThreads

Modulus == 2 ^ CounterBits

\* Lines 38 and 45-46: the replacement text of CWISS_ATOMIC_INC(val_).
AtomicIncText(m) ==
    IF Defined(m.__cplusplus)
    THEN "(val_).fetch_add(1, std::memory_order_relaxed)"
    ELSE "atomic_fetch_add_explicit(&(val_), 1, memory_order_relaxed)"

\* Lines 37 and 44: the type CWISS_ATOMIC_T(Type_) names.
AtomicTypeText(m) ==
    IF Defined(m.__cplusplus) THEN "std::atomic<Type_>" ELSE "_Atomic(Type_)"

Last(h) == h[Len(h)]

\* A lost update: the increment is computed from the value the thread last saw.
StaleFetchAdd(h, operand, seen) ==
    [ result |-> h[seen], after |-> Append(h, (h[seen] + operand) % Modulus) ]

\* fetch_and_add yields the new value instead of the old one.
AddFetch(h, operand, seen) ==
    [ result |-> (Last(h) + operand) % Modulus,
      after |-> Append(h, (Last(h) + operand) % Modulus) ]

\* std::atomic<T>::fetch_add(operand, relaxed) by a thread whose view of the
\* object is position seen: a read-modify-write reads the last value in the
\* modification order whatever the thread has seen, and yields it.
fetch_add(h, operand, seen) ==
    [ result |-> Last(h), after |-> Append(h, (Last(h) + operand) % Modulus) ]

\* C11 atomic_fetch_add_explicit(&obj, operand, relaxed).
atomic_fetch_add_explicit(h, operand, seen) ==
    [ result |-> Last(h), after |-> Append(h, (Last(h) + operand) % Modulus) ]

\* CWISS_ATOMIC_INC(val_) under the expansion text e.
CWISS_ATOMIC_INC(e, h, seen) ==
    IF e = "(val_).fetch_add(1, std::memory_order_relaxed)"
    THEN fetch_add(h, 1, seen)
    ELSE atomic_fetch_add_explicit(h, 1, seen)

InitAtomic ==
    /\ \E t \in { [BareToolchain EXCEPT !.__cplusplus = v] : v \in Flag } :
           PPRun(t, [ CWISS_ATOMIC_T |-> AtomicTypeText(t),
                      CWISS_ATOMIC_INC |-> AtomicIncText(t) ])
    /\ \E v \in 0..(Modulus - 1) : history = <<v>>
    /\ view = [t \in Threads |-> 1]
    /\ returned = <<>>
    /\ CheckIdle
    /\ HintIdle

\* Thread t executes CWISS_ATOMIC_INC(val_).
Inc(t) ==
    /\ Len(returned) < MaxIncs
    /\ LET r == CWISS_ATOMIC_INC(expansion.CWISS_ATOMIC_INC, history, view[t]) IN
           /\ history' = r.after
           /\ view' = [view EXCEPT ![t] = Len(r.after)]
           /\ returned' = Append(returned, [thread |-> t, value |-> r.result])
    /\ UNCHANGED <<ppVars, checkVars, hintVars>>

\* Thread t reads val_ with relaxed ordering: any value not older than the one
\* it has already seen.
Load(t) ==
    /\ \E i \in (view[t] + 1)..Len(history) : view' = [view EXCEPT ![t] = i]
    /\ UNCHANGED <<history, returned, ppVars, checkVars, hintVars>>

NextAtomic ==
    \/ \E t \in Threads : Inc(t)
    \/ \E t \in Threads : Load(t)

SpecAtomic == InitAtomic /\ [][NextAtomic]_vars

\* The value of val_ and the value thread t last observed.
CounterValue == Last(history)

Observed(t) == history[view[t]]

---------------------------------------------------------------------------
(* CWISS_CHECK and CWISS_DCHECK, lines 155-174 *)

\* CWISS_DCHECK without the NDEBUG test.
AlwaysCheckText(m) == "CWISS_CHECK"

\* Lines 170-174: the replacement text of CWISS_DCHECK.
DCheckText(m) == IF Defined(m.NDEBUG) THEN "((void)0)" ELSE "CWISS_CHECK"

\* printf-style formatting: fmt is the format string cut at its conversions,
\* "%d" takes the next argument.
RECURSIVE Format(_, _)
Format(fmt, args) ==
    IF fmt = <<>> THEN ""
    ELSE IF Head(fmt) = "%d"
         THEN ToString(Head(args)) \o Format(Tail(fmt), Tail(args))
         ELSE Head(fmt) \o Format(Tail(fmt), args)

\* Line 162: "CWISS_CHECK failed at %s:%d\n" with __FILE__ and __LINE__.
FailureHeader(file, line) ==
    Format(<<"CWISS_CHECK failed at ", file, ":", "%d", "\n">>, <<line>>)

\* The do { ... } while (false) of lines 160-167 without its fflush.
UnflushedCheckBody(pos, cond) ==
    CASE pos = "cond"    -> IF cond THEN "after" ELSE "header"
      [] pos = "header"  -> "message"
      [] pos = "message" -> "newline"
      [] pos = "newline" -> "abort"
      [] pos = "flush"   -> "abort"
      [] pos = "abort"   -> "aborted"

\* The body with the sense of the test inverted: if (!(cond_)) break.
InvertedCheckBody(pos, cond) ==
    CASE pos = "cond"    -> IF cond THEN "header" ELSE "after"
      [] pos = "header"  -> "message"
      [] pos = "message" -> "newline"
      [] pos = "newline" -> "flush"
      [] pos = "flush"   -> "abort"
      [] pos = "abort"   -> "aborted"

\* Lines 160-167: the statement that follows position pos of the macro body.
\* "after" is the statement following the macro; abort() does not return.
CheckBody(pos, cond) ==
    CASE pos = "cond"    -> IF cond THEN "after" ELSE "header"
      [] pos = "header"  -> "message"
      [] pos = "message" -> "newline"
      [] pos = "newline" -> "flush"
      [] pos = "flush"   -> "abort"
      [] pos = "abort"   -> "aborted"

Files == {"table.c"}

Lines == {7, 42}

Messages ==
    { [fmt |-> <<"boom">>, args |-> <<>>],
      [fmt |-> <<"size ", "%d">>, args |-> <<3>>] }

\* The check statements a caller can write.
CallsOf(macro) ==
    [ macro : {macro}, cond : BOOLEAN, msg : Messages, file : Files, line : Lines,
      condEvals0 : {condEvals}, argEvals0 : {argEvals} ]

InitCheck ==
    /\ \E t \in { [BareToolchain EXCEPT !.NDEBUG = v] : v \in Flag } :
           PPRun(t, [ CWISS_DCHECK |-> DCheckText(t) ])
    /\ CheckIdle
    /\ AtomicIdle
    /\ HintIdle

CheckFrame == UNCHANGED <<ppVars, atomicVars, hintVars>>

\* The caller reaches a CWISS_CHECK(cond, fmt, args...) statement.
CallCheck ==
    /\ cpc = "idle"
    /\ Len(calls) < MaxCalls
    /\ \E c \in CallsOf("CWISS_CHECK") : call' = c
    /\ calls' = Append(calls, call'.macro)
    /\ events' = <<>>
    /\ cpc' = "cond"
    /\ UNCHANGED <<stderrBuf, stderrOut, condEvals, argEvals>>
    /\ CheckFrame

\* The caller reaches a CWISS_DCHECK(cond, fmt, args...) statement: ((void)0)
\* under NDEBUG, the body of CWISS_CHECK otherwise.
CallDCheck ==
    /\ cpc = "idle"
    /\ Len(calls) < MaxCalls
    /\ \E c \in CallsOf("CWISS_DCHECK") : call' = c
    /\ calls' = Append(calls, call'.macro)
    /\ events' = <<>>
    /\ cpc' = IF expansion.CWISS_DCHECK = "((void)0)" THEN "after" ELSE "cond"
    /\ UNCHANGED <<stderrBuf, stderrOut, condEvals, argEvals>>
    /\ CheckFrame

\* Line 161: if (cond_) break;
EvalCond ==
    /\ cpc = "cond"
    /\ condEvals' = condEvals + 1
    /\ events' = Append(events, "cond")
    /\ cpc' = CheckBody(cpc, call.cond)
    /\ UNCHANGED <<call, stderrBuf, stderrOut, argEvals, calls>>
    /\ CheckFrame

\* Line 162.
PrintHeader ==
    /\ cpc = "header"
    /\ stderrBuf' = Append(stderrBuf, FailureHeader(call.file, call.line))
    /\ events' = Append(events, "fprintf header")
    /\ cpc' = CheckBody(cpc, call.cond)
    /\ UNCHANGED <<call, stderrOut, condEvals, argEvals, calls>>
    /\ CheckFrame

\* Line 163: the only place __VA_ARGS__ is expanded.
PrintMessage ==
    /\ cpc = "message"
    /\ argEvals' = argEvals + 1
    /\ stderrBuf' = Append(stderrBuf, Format(call.msg.fmt, call.msg.args))
    /\ events' = Append(events, "fprintf message")
    /\ cpc' = CheckBody(cpc, call.cond)
    /\ UNCHANGED <<call, stderrOut, condEvals, calls>>
    /\ CheckFrame

\* Line 164.
PrintNewline ==
    /\ cpc = "newline"
    /\ stderrBuf' = Append(stderrBuf, "\n")
    /\ events' = Append(events, "fprintf newline")
    /\ cpc' = CheckBody(cpc, call.cond)
    /\ UNCHANGED <<call, stderrOut, condEvals, argEvals, calls>>
    /\ CheckFrame

\* Line 165.
Flush ==
    /\ cpc = "flush"
    /\ stderrOut' = stderrOut \o stderrBuf
    /\ stderrBuf' = <<>>
    /\ events' = Append(events, "fflush")
    /\ cpc' = CheckBody(cpc, call.cond)
    /\ UNCHANGED <<call, condEvals, argEvals, calls>>
    /\ CheckFrame

\* Line 166: abort() ends the process; what stderr still buffers is not written.
Abort ==
    /\ cpc = "abort"
    /\ events' = Append(events, "abort")
    /\ cpc' = CheckBody(cpc, call.cond)
    /\ UNCHANGED <<call, stderrBuf, stderrOut, condEvals, argEvals, calls>>
    /\ CheckFrame

\* The statement after the check statement.
Continue ==
    /\ cpc = "after"
    /\ events' = Append(events, "next statement")
    /\ cpc' = "idle"
    /\ UNCHANGED <<call, stderrBuf, stderrOut, condEvals, argEvals, calls>>
    /\ CheckFrame

NextCheck ==
    \/ CallCheck
    \/ CallDCheck
    \/ EvalCond
    \/ PrintHeader
    \/ PrintMessage
    \/ PrintNewline
    \/ Flush
    \/ Abort
    \/ Continue

SpecCheck == InitCheck /\ [][NextCheck]_vars

---------------------------------------------------------------------------
(* CWISS_LIKELY, CWISS_UNLIKELY and CWISS_PREFETCH at run time, lines 176-211 *)

\* C's a && b.
LogicalAnd(a, b) == BoolInt(Truthy(a) /\ Truthy(b))

\* C's a || b.
LogicalOr(a, b) == BoolInt(Truthy(a) \/ Truthy(b))

\* __builtin_expect(exp, c) evaluates to exp.
builtin_expect(exp, c) == exp

\* Lines 179 and 182.
CWISS_LIKELY(e, cond_) ==
    IF e = "(__builtin_expect(false || (cond_), true))"
    THEN builtin_expect(LogicalOr(0, cond_), 1)
    ELSE cond_

\* Lines 180 and 183.
CWISS_UNLIKELY(e, cond_) ==
    IF e = "(__builtin_expect(false || (cond_), false))"
    THEN builtin_expect(LogicalOr(0, cond_), 0)
    ELSE cond_

CondValues == (0 - 1)..MaxCond

Addresses == {"valid", "invalid"}

Localities == {0, 3}

InitHint ==
    /\ \E t \in { [BareToolchain EXCEPT !.__clang__ = c, !.__GNUC__ = g,
                                        !._MSC_VER = v, !.__has_builtin = h] :
                  c \in Flag, g \in Flag, v \in Flag, h \in Flag } :
       \E expect \in ClangBuiltinAnswers(
                         [CWISS_HAVE_CLANG_BUILTIN |-> HaveClangBuiltinText(t)]),
          prefetch \in ClangBuiltinAnswers(
                         [CWISS_HAVE_CLANG_BUILTIN |-> HaveClangBuiltinText(t)]) :
           PPRun(t, [ CWISS_LIKELY |-> LikelyText(expect, Identify(t)),
                      CWISS_UNLIKELY |-> UnlikelyText(expect, Identify(t)),
                      CWISS_PREFETCH |-> PrefetchText(prefetch, Identify(t)) ])
    /\ HintIdle
    /\ AtomicIdle
    /\ CheckIdle

HintFrame == UNCHANGED <<ppVars, atomicVars, checkVars>>

EvalLikely ==
    /\ Len(hintLog) < MaxHintCalls
    /\ \E c \in CondValues :
           hintLog' = Append(hintLog,
               [ macro |-> "CWISS_LIKELY", arg |-> c,
                 result |-> CWISS_LIKELY(expansion.CWISS_LIKELY, c) ])
    /\ UNCHANGED <<prefetched, addrEvals>>
    /\ HintFrame

EvalUnlikely ==
    /\ Len(hintLog) < MaxHintCalls
    /\ \E c \in CondValues :
           hintLog' = Append(hintLog,
               [ macro |-> "CWISS_UNLIKELY", arg |-> c,
                 result |-> CWISS_UNLIKELY(expansion.CWISS_UNLIKELY, c) ])
    /\ UNCHANGED <<prefetched, addrEvals>>
    /\ HintFrame

\* Lines 206-207 and 210: CWISS_PREFETCH(addr_, locality_).
Prefetch ==
    /\ Len(hintLog) < MaxHintCalls
    /\ \E a \in Addresses, l \in Localities :
           /\ hintLog' = Append(hintLog,
                  [ macro |-> "CWISS_PREFETCH", arg |-> l, result |-> 0 ])
           /\ IF expansion.CWISS_PREFETCH = "((void)0)"
              THEN UNCHANGED <<prefetched, addrEvals>>
              ELSE /\ prefetched' = Append(prefetched,
                          [ addr |-> a, rw |-> 0, locality |-> l ])
                   /\ addrEvals' = addrEvals + 1
    /\ HintFrame

NextHint ==
    \/ EvalLikely
    \/ EvalUnlikely
    \/ Prefetch

SpecHint == InitHint /\ [][NextHint]_vars

---------------------------------------------------------------------------
(* Properties of the preprocessor run *)

PPStages ==
    << "clang", "gccish", "msvcish", "strict", "warning", "sse2", "ssse3",
       "emmintrin", "tmmintrin", "has_builtin", "has_attribute", "thread_local",
       "likely", "always_inline", "noinline", "prefetch", "done" >>

StageIndex(stage) == CHOOSE i \in 1..Len(PPStages) : PPStages[i] = stage

\* The directive group named stage has been read. The #error of the
\* "tmmintrin" group stops the run right after that group.
Past(stage) ==
    IF ppc = "failed" THEN StageIndex(stage) <= StageIndex("tmmintrin")
    ELSE StageIndex(stage) < StageIndex(ppc)

SSE2Flag == Truthy(macros.CWISS_HAVE_SSE2)

SSSE3Flag == Truthy(macros.CWISS_HAVE_SSSE3)

\* C2: once the configuration test of lines 121-124 has been read, the build
\* has failed with "Bad configuration: SSSE3 implies SSE2!" exactly when the
\* resolved CWISS_HAVE_SSSE3 is true and the resolved CWISS_HAVE_SSE2 is
\* false; otherwise SSSE3 true implies SSE2 true. No other directive fails.
C2_BadConfigurationExactly ==
    /\ error \in {"", BadConfiguration}
    /\ (ppc = "failed") <=> (error = BadConfiguration)
    /\ ~Past("tmmintrin") => error = ""
    /\ Past("tmmintrin") =>
           /\ (error = BadConfiguration) <=> (SSSE3Flag /\ ~SSE2Flag)
           /\ error = "" => (SSSE3Flag => SSE2Flag)

\* An override of CWISS_HAVE_SSE2=0 on an SSE2+SSSE3 target fails the build.
C2_Witness ==
    /\ ppc = "failed"
    /\ error = BadConfiguration
    /\ predefined.CWISS_HAVE_SSE2 = 0
    /\ Defined(predefined.__SSE2__)
    /\ Defined(predefined.__SSSE3__)
    /\ ~Defined(predefined.CWISS_HAVE_SSSE3)

Overrides == {Undef} \cup 0..MaxOverride

\* C3: once both flags are resolved, a flag the build defined has the value
\* the build gave it whatever the platform macros are, and the value of each
\* flag is the same whatever override the other flag was given.
C3_OverrideWins ==
    Past("ssse3") =>
        /\ Defined(predefined.CWISS_HAVE_SSE2) =>
               macros.CWISS_HAVE_SSE2 = predefined.CWISS_HAVE_SSE2
        /\ Defined(predefined.CWISS_HAVE_SSSE3) =>
               macros.CWISS_HAVE_SSSE3 = predefined.CWISS_HAVE_SSSE3
        /\ \A v \in Overrides :
               /\ HaveSSE2(Identify([predefined EXCEPT !.CWISS_HAVE_SSSE3 = v]))
                      = macros.CWISS_HAVE_SSE2
               /\ HaveSSSE3(Identify([predefined EXCEPT !.CWISS_HAVE_SSE2 = v]))
                      = macros.CWISS_HAVE_SSSE3

\* SSE2 overridden to 0 where it would be detected, SSSE3 left to detection.
C3_Witness ==
    /\ Past("ssse3")
    /\ predefined.CWISS_HAVE_SSE2 = 0
    /\ DetectSSE2(Identify(predefined))
    /\ macros.CWISS_HAVE_SSE2 = 0
    /\ ~Defined(predefined.CWISS_HAVE_SSSE3)
    /\ Defined(predefined.__SSSE3__)
    /\ macros.CWISS_HAVE_SSSE3 = 1

AnyCompilerMacro ==
    \/ Defined(predefined.__clang__)
    \/ Defined(predefined.__GNUC__)
    \/ Defined(predefined._MSC_VER)

\* How many of CWISS_IS_CLANG, CWISS_IS_GCC, CWISS_IS_MSVC are true.
StrictCount ==
    BoolInt(Truthy(macros.CWISS_IS_CLANG))
        + BoolInt(Truthy(CWISS_IS_GCC(macros)))
        + BoolInt(Truthy(CWISS_IS_MSVC(macros)))

\* Clang never counts as strict GCC or MSVC; the family flags follow the
\* family macros whether or not the compiler is Clang.
ClangExcludesStrict ==
    /\ Truthy(macros.CWISS_IS_CLANG) <=> Defined(predefined.__clang__)
    /\ Truthy(macros.CWISS_IS_CLANG) =>
           ~Truthy(CWISS_IS_GCC(macros)) /\ ~Truthy(CWISS_IS_MSVC(macros))
    /\ Truthy(macros.CWISS_IS_GCCISH) <=> Defined(predefined.__GNUC__)
    /\ Truthy(macros.CWISS_IS_MSVCISH) <=> Defined(predefined._MSC_VER)

StrictDefined ==
    /\ Past("strict")
    /\ expansion.CWISS_IS_GCC # NotDefinedText
    /\ expansion.CWISS_IS_MSVC # NotDefinedText

\* C4 as stated: for every combination of __clang__, __GNUC__, _MSC_VER with
\* at least one defined, exactly one of CWISS_IS_CLANG, CWISS_IS_GCC,
\* CWISS_IS_MSVC is true, Clang excludes the strict flags, and the family
\* flags still report the family.
C4_ExactlyOneAlways ==
    (Past("strict") /\ AnyCompilerMacro) =>
        StrictDefined /\ StrictCount = 1 /\ ClangExcludesStrict

GnucAndMscVerWithoutClang ==
    /\ ~Defined(predefined.__clang__)
    /\ Defined(predefined.__GNUC__)
    /\ Defined(predefined._MSC_VER)

\* C4 amended: the same, except that when __GNUC__ and _MSC_VER are both
\* defined and __clang__ is not, CWISS_IS_GCC and CWISS_IS_MSVC are both true.
C4_ExactlyOneUnlessGnucAndMscVer ==
    (Past("strict") /\ AnyCompilerMacro) =>
        /\ StrictDefined
        /\ ClangExcludesStrict
        /\ IF GnucAndMscVerWithoutClang
           THEN Truthy(CWISS_IS_GCC(macros)) /\ Truthy(CWISS_IS_MSVC(macros))
           ELSE StrictCount = 1

\* Clang in GCC mode: the family flag is set and strict GCC is not.
C4_Witness ==
    /\ StrictDefined
    /\ Defined(predefined.__clang__)
    /\ Defined(predefined.__GNUC__)
    /\ ~Defined(predefined._MSC_VER)
    /\ macros.CWISS_IS_CLANG = 1
    /\ macros.CWISS_IS_GCCISH = 1
    /\ CWISS_IS_GCC(macros) = 0
    /\ StrictCount = 1

\* None of the macros the header recognizes a toolchain by, and no override.
Unrecognized ==
    /\ ~AnyCompilerMacro
    /\ ~Defined(predefined.__has_builtin)
    /\ ~Defined(predefined.__has_attribute)
    /\ ~Defined(predefined.CWISS_HAVE_SSE2)
    /\ ~Defined(predefined.CWISS_HAVE_SSSE3)

\* Every facility in its degraded form.
Degraded ==
    /\ macros.CWISS_IS_CLANG = 0
    /\ macros.CWISS_IS_GCCISH = 0
    /\ macros.CWISS_IS_MSVCISH = 0
    /\ CWISS_IS_GCC(macros) = 0
    /\ CWISS_IS_MSVC(macros) = 0
    /\ macros.CWISS_HAVE_PREFETCH = 0
    /\ expansion.CWISS_PREFETCH = "((void)0)"
    /\ expansion.CWISS_LIKELY = "(cond_)"
    /\ expansion.CWISS_UNLIKELY = "(cond_)"
    /\ expansion.CWISS_ALWAYS_INLINE = ""
    /\ expansion.CWISS_NOINLINE = ""

\* Each hint macro is defined, to the intrinsic or to its no-op.
HintsDefined ==
    /\ expansion.CWISS_LIKELY \in
           {"(__builtin_expect(false || (cond_), true))", "(cond_)"}
    /\ expansion.CWISS_UNLIKELY \in
           {"(__builtin_expect(false || (cond_), false))", "(cond_)"}
    /\ expansion.CWISS_ALWAYS_INLINE \in {"__attribute__((always_inline))", ""}
    /\ expansion.CWISS_NOINLINE \in {"__attribute__((noinline))", ""}
    /\ expansion.CWISS_PREFETCH \in
           {"__builtin_prefetch(addr_, 0, locality_);", "((void)0)"}
    /\ Defined(macros.CWISS_HAVE_PREFETCH)
    /\ Truthy(macros.CWISS_HAVE_PREFETCH)
           <=> expansion.CWISS_PREFETCH # "((void)0)"

\* C9 as stated: on an unrecognized toolchain resolution never produces a
\* build error and every facility degrades; on every toolchain each hint
\* macro is defined.
C9_NeverAnError ==
    /\ Unrecognized => error = "" /\ ppc # "failed"
    /\ (Unrecognized /\ ppc = "done") => Degraded
    /\ ppc = "done" => HintsDefined

\* C9 amended: on an unrecognized toolchain the only build error is the
\* configuration error, met exactly when the toolchain predefines __SSSE3__
\* without __SSE2__; when the header is read to its end every facility has
\* degraded, and on every toolchain each hint macro is then defined.
C9_DegradesUnlessBadConfiguration ==
    /\ Unrecognized =>
           /\ error \in {"", BadConfiguration}
           /\ (error = BadConfiguration) <=>
                  /\ Past("tmmintrin")
                  /\ Defined(predefined.__SSSE3__)
                  /\ ~Defined(predefined.__SSE2__)
    /\ (Unrecognized /\ ppc = "done") => Degraded
    /\ ppc = "done" => HintsDefined

\* An unknown compiler on a target without SIMD macros, read to the end.
C9_Witness ==
    /\ Unrecognized
    /\ ppc = "done"
    /\ error = ""
    /\ Degraded
    /\ expansion.CWISS_THREAD_LOCAL = NotDefinedText

---------------------------------------------------------------------------
(* Properties of CWISS_ATOMIC_INC *)

InitialValue == history[1]

\* CWISS_ATOMIC_INC calls completed, over all threads.
Completed == Len(returned)

\* C1 as stated: after N calls in any interleaving the counter is exactly
\* its initial value plus N, under either expansion.
C1_InitialPlusN == CounterValue = InitialValue + Completed

\* C1 amended: after N calls in any interleaving the counter is its initial
\* value plus N modulo 2^CounterBits, and every call added its own write to
\* the modification order (none is lost), under either expansion.
C1_InitialPlusNModulo ==
    /\ CounterValue = (InitialValue + Completed) % Modulus
    /\ Len(history) = Completed + 1
    /\ \A i \in 1..Completed : history[i + 1] = (history[i] + 1) % Modulus

\* Two threads have both incremented, through the C++ expansion, and the
\* counter has wrapped.
C1_Witness ==
    /\ expansion.CWISS_ATOMIC_INC = "(val_).fetch_add(1, std::memory_order_relaxed)"
    /\ Completed = MaxIncs
    /\ \E i, j \in 1..Completed : returned[i].thread # returned[j].thread
    /\ InitialValue + Completed >= Modulus
    /\ CounterValue = InitialValue + Completed - Modulus

\* The counter has not wrapped around.
NoWraparound == InitialValue + Completed < Modulus

\* Each call yielded the value just before its own increment; the values
\* yielded are pairwise distinct and are InitialValue .. InitialValue+N-1.
ReturnsAreDistinctPredecessors ==
    /\ \A i \in 1..Completed :
           /\ returned[i].value = history[i]
           /\ history[i + 1] = returned[i].value + 1
    /\ \A i, j \in 1..Completed :
           i # j => returned[i].value # returned[j].value
    /\ { returned[i].value : i \in 1..Completed }
           = InitialValue..(InitialValue + Completed - 1)

\* C10: without wraparound, each CWISS_ATOMIC_INC yields the value just
\* before its own increment, the N values yielded are pairwise distinct and
\* are exactly v..v+N-1, and the value a thread observes never decreases.
C10_FetchThenAdd ==
    /\ [](NoWraparound => ReturnsAreDistinctPredecessors)
    /\ [][NoWraparound' => \A t \in Threads : Observed(t)' >= Observed(t)]_vars

\* Three calls by two threads through the C expansion, no wraparound, and a
\* thread whose view lags the counter.
C10_Witness ==
    /\ expansion.CWISS_ATOMIC_INC
           = "atomic_fetch_add_explicit(&(val_), 1, memory_order_relaxed)"
    /\ NoWraparound
    /\ Completed >= 3
    /\ \E i, j \in 1..Completed : returned[i].thread # returned[j].thread
    /\ \E t \in Threads : Observed(t) < CounterValue

---------------------------------------------------------------------------
(* Properties of CWISS_CHECK and CWISS_DCHECK *)

\* What a failing check does, in order.
FailTrace ==
    << "cond", "fprintf header", "fprintf message", "fprintf newline",
       "fflush", "abort" >>

BodyPositions ==
    << "cond", "header", "message", "newline", "flush", "abort", "aborted" >>

ExpectedHeader ==
    "CWISS_CHECK failed at " \o call.file \o ":" \o ToString(call.line) \o "\n"

ExpectedMessage == IF call.msg.fmt = <<"boom">> THEN "boom" ELSE "size 3"

ExpectedOutput == << ExpectedHeader, ExpectedMessage, "\n" >>

Min(a, b) == IF a < b THEN a ELSE b

Max(a, b) == IF a < b THEN b ELSE a

\* The statement in progress is on the failing path at position k of the
\* macro body: it has done the first k-1 steps of FailTrace and nothing else.
FailingAt(k) ==
    /\ cpc = BodyPositions[k]
    /\ events = SubSeq(FailTrace, 1, k - 1)
    /\ stderrOut \o stderrBuf = SubSeq(ExpectedOutput, 1, Min(Max(k - 2, 0), 3))
    /\ (k <= 5) => stderrOut = <<>>
    /\ (k >= 6) => stderrBuf = <<>>
    /\ condEvals = call.condEvals0 + (IF k >= 2 THEN 1 ELSE 0)
    /\ argEvals = call.argEvals0 + (IF k >= 4 THEN 1 ELSE 0)

FailsFatally == \E k \in 1..Len(BodyPositions) : FailingAt(k)

\* The statement in progress evaluates its condition once and nothing else,
\* then control is at the statement after it.
PassesSilently ==
    /\ stderrBuf = <<>>
    /\ stderrOut = <<>>
    /\ argEvals = call.argEvals0
    /\ \/ cpc = "cond" /\ events = <<>> /\ condEvals = call.condEvals0
       \/ cpc = "after" /\ events = <<"cond">>
                        /\ condEvals = call.condEvals0 + 1
       \/ cpc = "idle" /\ events = <<"cond", "next statement">>
                       /\ condEvals = call.condEvals0 + 1

\* The statement in progress does nothing at all.
NoEffect ==
    /\ stderrBuf = <<>>
    /\ stderrOut = <<>>
    /\ argEvals = call.argEvals0
    /\ condEvals = call.condEvals0
    /\ \/ cpc = "after" /\ events = <<>>
       \/ cpc = "idle" /\ events = <<"next statement">>

\* C5: CWISS_CHECK with a false condition writes the header with the call
\* site's file and line, then the formatted message, then a newline, flushes
\* stderr and aborts, in this order with nothing in between; until it has
\* aborted it can always take its next step, once aborted nothing runs any
\* more, and control never reaches the statement after the check.
C5_FailOrder ==
    (call.macro = "CWISS_CHECK" /\ ~call.cond) =>
        /\ FailsFatally
        /\ cpc # "aborted" => ENABLED NextCheck
        /\ cpc = "aborted" => ~ENABLED NextCheck

\* A failed check at table.c:42 with message "boom" has aborted.
C5_Witness ==
    /\ call.macro = "CWISS_CHECK"
    /\ ~call.cond
    /\ cpc = "aborted"
    /\ events = FailTrace
    /\ stderrOut = <<"CWISS_CHECK failed at table.c:42\n", "boom", "\n">>

\* C6: CWISS_CHECK with a true condition, with or without NDEBUG, evaluates
\* the condition exactly once, does not evaluate the message operands, writes
\* nothing, does not abort, and control continues after the check.
C6_PassSilent ==
    (call.macro = "CWISS_CHECK" /\ call.cond) => PassesSilently

\* Under NDEBUG a passing CWISS_CHECK has been followed by the next statement.
C6_Witness ==
    /\ Defined(predefined.NDEBUG)
    /\ call.macro = "CWISS_CHECK"
    /\ call.cond
    /\ cpc = "idle"
    /\ events = <<"cond", "next statement">>
    /\ condEvals = call.condEvals0 + 1

\* C7: under NDEBUG a CWISS_DCHECK evaluates neither its condition nor its
\* message operands, writes nothing and never aborts, whatever the condition
\* would be, so the evaluation count stays 0 over any number of CWISS_DCHECK
\* statements; without NDEBUG it does what CWISS_CHECK does.
C7_DCheckDisabled ==
    /\ call.macro = "CWISS_DCHECK" =>
           IF Defined(predefined.NDEBUG) THEN NoEffect
           ELSE IF call.cond THEN PassesSilently ELSE FailsFatally
    /\ (Defined(predefined.NDEBUG)
           /\ \A i \in 1..Len(calls) : calls[i] = "CWISS_DCHECK") =>
           condEvals = 0 /\ argEvals = 0 /\ cpc \in {"idle", "after"}

\* Under NDEBUG, MaxCalls CWISS_DCHECK statements, the last with a false
\* condition, have run and nothing was evaluated.
C7_Witness ==
    /\ Defined(predefined.NDEBUG)
    /\ Len(calls) = MaxCalls
    /\ \A i \in 1..Len(calls) : calls[i] = "CWISS_DCHECK"
    /\ ~call.cond
    /\ cpc = "idle"
    /\ condEvals = 0

---------------------------------------------------------------------------
(* Properties of CWISS_LIKELY and CWISS_UNLIKELY *)

BranchHints ==
    { i \in 1..Len(hintLog) :
          hintLog[i].macro \in {"CWISS_LIKELY", "CWISS_UNLIKELY"} }

\* C8 as stated: for every value of c each macro yields c, under either
\* expansion.
C8_ValueUnchanged ==
    \A i \in BranchHints : hintLog[i].result = hintLog[i].arg

BuiltinExpansion ==
    expansion.CWISS_LIKELY = "(__builtin_expect(false || (cond_), true))"

\* C8 amended: each macro yields a value with the truth of c: c itself under
\* the fallback expansion, 1 for nonzero c and 0 for zero c under the
\* __builtin_expect expansion; so for c in {0, 1} the result is c and the two
\* expansions agree.
C8_TruthUnchanged ==
    \A i \in BranchHints :
        LET c == hintLog[i].arg
            r == hintLog[i].result
        IN  /\ Truthy(r) <=> Truthy(c)
            /\ c \in {0, 1} => r = c
            /\ ~BuiltinExpansion => r = c
            /\ BuiltinExpansion => r = (IF c = 0 THEN 0 ELSE 1)

\* CWISS_LIKELY(2) under the __builtin_expect expansion yields 1.
C8_Witness ==
    /\ BuiltinExpansion
    /\ \E i \in BranchHints :
           /\ hintLog[i].macro = "CWISS_LIKELY"
           /\ hintLog[i].arg = 2
           /\ hintLog[i].result = 1
    /\ \E i \in BranchHints :
           /\ hintLog[i].macro = "CWISS_UNLIKELY"
           /\ hintLog[i].arg = 0
           /\ hintLog[i].result = 0

====
